---------------------------- MODULE Spec2Model ----------------------------
(***************************************************************************)
(* A model of scrape/run_scrape.py: the Rightmove scraper.                 *)
(*                                                                         *)
(*   find_locations     tokenizes a query into the typeahead path segment  *)
(*   scrape_search      pages through the search API (page 0 first, the    *)
(*                      other pages concurrently, merged as they complete) *)
(*   extract_property   finds the PAGE_MODEL script and decodes its JSON   *)
(*   parse_property     projects the decoded object through parse_map      *)
(*   scrape_properties  fetches a batch of listing pages concurrently      *)
(*   run_save           the end-to-end driver                              *)
(*                                                                         *)
(* Strings that the code takes apart (the query, resultCount) are          *)
(* sequences of one-character strings.  JSON values are tagged records.    *)
(***************************************************************************)
EXTENDS Integers, Sequences, FiniteSets, TLC

VARIABLES
    \* find_locations
    query,          \* the query argument, a sequence of characters
    fl_pc,          \* "idle" | "call" | "await" | "done"
    tokenize_query, \* the path segment put in the url (after strip)
    fl_out,         \* the outcome: the exception raised or the list returned
    \* parse_property
    data,           \* the argument
    pp_pc,          \* "idle" | "call" | "done"
    pp_out,         \* the outcome: the exception raised or the record returned
    \* the portal
    site,           \* listing id -> the kind of page its url serves
    total,          \* the number of listings the search API declares
    net,            \* the order search responses arrive in: "any" | "fifo" | "lifo"
    \* scrape_properties
    urls,           \* the argument: the listing id of each url
    sp_pc,          \* "idle" | "call" | "loop" | "done"
    sp_pending,     \* positions of urls whose fetch is in flight
    sp_queue,       \* as_completed's queue: fetched, not yet taken by the loop
    sp_completed,   \* history: positions in the order their fetches completed
    properties,     \* the list being built
    sp_out,         \* the outcome: the exception raised or the list returned
    \* scrape_search
    ss_pc,          \* "idle" | "call" | "first" | "loop" | "done"
    total_results,  \* the parsed resultCount
    other_pages,    \* the offsets of the requests built by the loop
    ss_pending,     \* offsets whose fetch is in flight
    ss_queue,       \* as_completed's queue: fetched, not yet taken by the loop
    ss_completed,   \* history: offsets in the order their fetches completed
    results,        \* the merged list (listing ids)
    \* run_save
    rs_pc,          \* "idle" | "start" | "locate" | "search" | "ads" | "fetch" | "done" | "raised"
    rs_i,           \* how many ads the loop has finished
    feature_list    \* the rows of the output table

flVars == <<query, fl_pc, tokenize_query, fl_out>>

ppVars == <<data, pp_pc, pp_out>>

envVars == <<site, total, net>>

spVars == <<urls, sp_pc, sp_pending, sp_queue, sp_completed, properties, sp_out>>

ssVars == <<ss_pc, total_results, other_pages, ss_pending, ss_queue, ss_completed, results>>

rsVars == <<rs_pc, rs_i, feature_list>>

vars == <<flVars, ppVars, envVars, spVars, ssVars, rsVars>>

---------------------------------------------------------------------------
(* Bounds of the explored inputs.                                          *)

MaxQueryLen == 4
MaxImages == 2
MaxUrls == 3
MaxTotal == 100
CapMargin == 9
MaxRunTotal == 2
MaxBadId == 2

---------------------------------------------------------------------------
(* Generic helpers.                                                        *)

Range(s) == {s[i] : i \in DOMAIN s}

Min(a, b) == IF a < b THEN a ELSE b

SeqsUpTo(S, n) == UNION {[1..k -> S] : k \in 0..n}

---------------------------------------------------------------------------
(* JSON values, as json.loads builds them: None, bool, number, str, list,  *)
(* dict.  Python's None and JSON null are the same value.                  *)

Null == [t |-> "null"]

Bool(b) == [t |-> "bool", v |-> b]

Num(n) == [t |-> "num", v |-> n]

Str(s) == [t |-> "str", v |-> s]

Arr(s) == [t |-> "arr", v |-> s]

Obj(f) == [t |-> "obj", v |-> f]

\* What an evaluation yields when an exception escapes it.
Raised == [t |-> "raise"]

\* An outcome of a call: the exception that escaped it, or its return value.
Return(v) == [exc |-> "none", val |-> v]

Raise(e) == [exc |-> e, val |-> Null]

---------------------------------------------------------------------------
(* JMESPath expressions (the four forms parse_map uses) and                *)
(* jmespath.search on them.                                                *)

Field(n) == [op |-> "field", name |-> n]

Sub(l, r) == [op |-> "sub", l |-> l, r |-> r]

Proj(l, r) == [op |-> "proj", l |-> l, r |-> r]

Hash(kv) == [op |-> "hash", kv |-> kv]

KV(k, n) == [key |-> k, node |-> n]

\* a.b.c : subexpression(subexpression(a, b), c)
RECURSIVE Dotted(_)
Dotted(names) ==
    IF Len(names) = 1 THEN Field(names[1])
    ELSE Sub(Dotted(SubSeq(names, 1, Len(names) - 1)), Field(names[Len(names)]))

\* try: return value.get(name)  except AttributeError: return None
visit_field(name, value) ==
    IF value.t = "obj"
    THEN IF name \in DOMAIN value.v THEN value.v[name] ELSE Null
    ELSE Null

\* The elements of a projection that are not None, in order.
RECURSIVE DropNull(_)
DropNull(s) ==
    IF s = <<>> THEN <<>>
    ELSE IF Head(s) = Null THEN DropNull(Tail(s))
    ELSE <<Head(s)>> \o DropNull(Tail(s))

RECURSIVE visit(_, _)
visit(node, value) ==
    CASE node.op = "field" -> visit_field(node.name, value)
      [] node.op = "sub" ->
            LET l == visit(node.l, value)
            IN  IF l = Raised THEN Raised ELSE visit(node.r, l)
      [] node.op = "proj" ->
            LET base == visit(node.l, value)
            IN  IF base = Raised THEN Raised
                ELSE IF base.t # "arr" THEN Null
                ELSE LET each == [i \in DOMAIN base.v |-> visit(node.r, base.v[i])]
                     IN  IF \E i \in DOMAIN each : each[i] = Raised THEN Raised
                         ELSE Arr(DropNull(each))
      [] node.op = "hash" ->
            IF value = Null THEN Null
            ELSE LET keys == {node.kv[i].key : i \in DOMAIN node.kv}
                     at(k) == CHOOSE i \in DOMAIN node.kv : node.kv[i].key = k
                     each == [k \in keys |-> visit(node.kv[at(k)].node, value)]
                 IN  IF \E k \in keys : each[k] = Raised THEN Raised
                     ELSE Obj(each)

jmespath_search(path, value) == visit(path, value)

---------------------------------------------------------------------------
(* parse_property                                                          *)

UrlCaption == Hash(<<KV("url", Field("url")), KV("caption", Field("caption"))>>)

NameDistance == Hash(<<KV("name", Field("name")), KV("distance", Field("distance"))>>)

\* The field name to JMESPath mapping, in insertion order.
parse_map == <<
    KV("id", Field("id")),
    KV("available", Dotted(<<"status", "published">>)),
    KV("archived", Dotted(<<"status", "archived">>)),
    KV("phone", Dotted(<<"contactInfo", "telephoneNumbers", "localNumber">>)),
    KV("bedrooms", Field("bedrooms")),
    KV("bathrooms", Field("bathrooms")),
    KV("type", Field("transactionType")),
    KV("property_type", Field("propertySubType")),
    KV("tags", Field("tags")),
    KV("description", Dotted(<<"text", "description">>)),
    KV("title", Dotted(<<"text", "pageTitle">>)),
    KV("subtitle", Dotted(<<"text", "propertyPhrase">>)),
    KV("price", Dotted(<<"prices", "primaryPrice">>)),
    KV("price_sqft", Dotted(<<"prices", "pricePerSqFt">>)),
    KV("address", Field("address")),
    KV("latitude", Dotted(<<"location", "latitude">>)),
    KV("longitude", Dotted(<<"location", "longitude">>)),
    KV("features", Field("keyFeatures")),
    KV("history", Field("listingHistory")),
    KV("photos", Proj(Field("images"), UrlCaption)),
    KV("floorplans", Proj(Field("floorplans"), UrlCaption)),
    KV("agency", Sub(Field("customer"), Hash(<<
        KV("id", Field("branchId")),
        KV("branch", Field("branchName")),
        KV("company", Field("companyName")),
        KV("address", Field("displayAddress")),
        KV("commercial", Field("commercial")),
        KV("buildToRent", Field("buildToRent")),
        KV("isNew", Field("isNewHomeDeveloper"))>>))),
    KV("industryAffiliations", Proj(Field("industryAffiliations"), Field("name"))),
    KV("nearest_airports", Proj(Field("nearestAirports"), NameDistance)),
    KV("nearest_stations", Proj(Field("nearestStations"), NameDistance)),
    KV("sizings", Proj(Field("sizings"), Hash(<<
        KV("unit", Field("unit")),
        KV("min", Field("minimumSize")),
        KV("max", Field("maximumSize"))>>))),
    KV("brochures", Field("brochures"))
>>

\* A mutant of parse_property: a field whose value is None is left out
\* (if value is not None: results[key] = value).
parse_property_skip_none(d) ==
    LET vals == [i \in DOMAIN parse_map |-> jmespath_search(parse_map[i].node, d)]
        kept == SelectSeq([i \in DOMAIN parse_map |-> i], LAMBDA i : vals[i] # Null)
    IN  IF \E i \in DOMAIN vals : vals[i] = Raised
        THEN Raise("AttributeError")
        ELSE Return([i \in DOMAIN kept |->
                        [key |-> parse_map[kept[i]].key, value |-> vals[kept[i]]]])

\* results = {}; for key, path in parse_map.items(): results[key] = search(path, data)
\* The record is the sequence of its (key, value) items in insertion order.
parse_property(d) ==
    LET vals == [i \in DOMAIN parse_map |-> jmespath_search(parse_map[i].node, d)]
    IN  IF \E i \in DOMAIN vals : vals[i] = Raised
        THEN Raise("AttributeError")
        ELSE Return([i \in DOMAIN parse_map |->
                        [key |-> parse_map[i].key, value |-> vals[i]]])

---------------------------------------------------------------------------
(* Response bodies and json.loads.  A body is the JSON value it spells,    *)
(* possibly cut short, possibly followed by more text.  json.loads decodes *)
(* the whole string: anything but one complete value is a decode error.    *)

JsonText(v) == [value |-> v, complete |-> TRUE, trailing |-> FALSE]

TruncatedText(v) == [value |-> v, complete |-> FALSE, trailing |-> FALSE]

TrailingText(v) == [value |-> v, complete |-> TRUE, trailing |-> TRUE]

json_loads(text) ==
    IF text.complete /\ ~text.trailing
    THEN Return(text.value)
    ELSE Raise("JSONDecodeError")

\* value[key] on a decoded value
getitem(value, key) ==
    IF value.t # "obj" THEN Raise("TypeError")
    ELSE IF key \in DOMAIN value.v THEN Return(value.v[key])
    ELSE Raise("KeyError")

---------------------------------------------------------------------------
(* find_locations                                                          *)

\* The characters queries are made of.  "eszett" stands for the one
\* character U+00DF, whose upper case is the two characters "SS".
Alphabet == {"a", "B", "/", "eszett"}

\* str.upper() of one character
UpperChar(c) ==
    CASE c = "a" -> <<"A">>
      [] c = "eszett" -> <<"S", "S">>
      [] OTHER -> <<c>>

\* query.upper()
RECURSIVE upper(_)
upper(s) == IF s = <<>> THEN <<>> ELSE UpperChar(Head(s)) \o upper(Tail(s))

\* A mutant of JoinTokens: the separator follows the odd positions.
RECURSIVE JoinTokensOdd(_, _)
JoinTokensOdd(u, i) ==
    IF i > Len(u) THEN <<>>
    ELSE <<u[i]>> \o (IF i % 2 = 1 THEN <<"/">> ELSE <<>>) \o JoinTokensOdd(u, i + 1)

\* "".join(c + ("/" if i % 2 == 0 else "") for i, c in enumerate(u, start=1)),
\* from position i on
RECURSIVE JoinTokens(_, _)
JoinTokens(u, i) ==
    IF i > Len(u) THEN <<>>
    ELSE <<u[i]>> \o (IF i % 2 = 0 THEN <<"/">> ELSE <<>>) \o JoinTokens(u, i + 1)

\* s.lstrip(c)
RECURSIVE lstrip(_, _)
lstrip(s, c) == IF s # <<>> /\ Head(s) = c THEN lstrip(Tail(s), c) ELSE s

\* s.rstrip(c)
RECURSIVE rstrip(_, _)
rstrip(s, c) ==
    IF s # <<>> /\ s[Len(s)] = c THEN rstrip(SubSeq(s, 1, Len(s) - 1), c) ELSE s

\* s.strip(c)
strip(s, c) == rstrip(lstrip(s, c), c)

\* The path segment of the typeahead url: tokenize_query.strip('/')
TokenizedSegment(q) == strip(JoinTokens(upper(q), 1), "/")

\* The typeahead endpoint's answers: k candidates, a body that is not JSON,
\* a JSON body of another shape.
LocationId(i) == Str(<<"REGION", i>>)

Prediction(i) == Obj([locationIdentifier |-> LocationId(i)])

TypeaheadBodies ==
    {JsonText(Obj([typeAheadLocations |-> Arr([i \in 1..k |-> Prediction(i)])])) :
        k \in 0..1}
    \cup {TruncatedText(Obj([typeAheadLocations |-> Arr(<<>>)])),
          JsonText(Obj([error |-> Str("x")]))}

\* data = json.loads(response.text)
\* return [prediction["locationIdentifier"] for prediction in data["typeAheadLocations"]]
LocationList(body) ==
    LET decoded == json_loads(body)
    IN  IF decoded.exc # "none" THEN decoded
        ELSE LET preds == getitem(decoded.val, "typeAheadLocations")
             IN  IF preds.exc # "none" THEN preds
                 ELSE LET ids == [i \in DOMAIN preds.val.v |->
                                     getitem(preds.val.v[i], "locationIdentifier")]
                      IN  IF \E i \in DOMAIN ids : ids[i].exc # "none"
                          THEN Raise("KeyError")
                          ELSE Return([i \in DOMAIN ids |-> ids[i].val])

\* find_locations up to its await: the url is built and the GET is issued.
FL_Request ==
    /\ fl_pc = "call"
    /\ tokenize_query' = TokenizedSegment(query)
    /\ fl_pc' = "await"
    /\ UNCHANGED <<query, fl_out>>
    /\ UNCHANGED <<ppVars, envVars, spVars, ssVars, rsVars>>

\* find_locations from the response on: decode, list the identifiers.
FL_Response ==
    /\ fl_pc = "await"
    /\ \E body \in TypeaheadBodies : fl_out' = LocationList(body)
    /\ fl_pc' = "done"
    /\ UNCHANGED <<query, tokenize_query>>
    /\ UNCHANGED <<ppVars, envVars, spVars, ssVars, rsVars>>

---------------------------------------------------------------------------
(* The state of a function that has not been called.                       *)

Pending == [exc |-> "pending", val |-> Null]

IdleFl == query = <<>> /\ fl_pc = "idle" /\ tokenize_query = <<>> /\ fl_out = Pending

IdlePp == data = Null /\ pp_pc = "idle" /\ pp_out = Pending

IdleEnv == site = <<>> /\ total = 0 /\ net = "any"

IdleSp ==
    /\ urls = <<>> /\ sp_pc = "idle" /\ sp_pending = {} /\ sp_queue = <<>>
    /\ sp_completed = <<>> /\ properties = <<>> /\ sp_out = Pending

IdleSs ==
    /\ ss_pc = "idle" /\ total_results = 0 /\ other_pages = <<>> /\ ss_pending = {}
    /\ ss_queue = <<>> /\ ss_completed = <<>> /\ results = <<>>

IdleRs == rs_pc = "idle" /\ rs_i = 0 /\ feature_list = <<>>

---------------------------------------------------------------------------
(* find_locations called on every query of at most MaxQueryLen characters. *)

InitTok ==
    /\ query \in SeqsUpTo(Alphabet, MaxQueryLen)
    /\ fl_pc = "call" /\ tokenize_query = <<>> /\ fl_out = Pending
    /\ IdlePp /\ IdleEnv /\ IdleSp /\ IdleSs /\ IdleRs

NextTok == FL_Request \/ FL_Response

SpecTok == InitTok /\ [][NextTok]_vars

\* The query in groups of two characters, the last one shorter when the
\* length is odd.
GroupsOfTwo(u) ==
    [j \in 1..((Len(u) + 1) \div 2) |-> SubSeq(u, 2 * j - 1, Min(2 * j, Len(u)))]

RECURSIVE JoinWith(_, _)
JoinWith(groups, sep) ==
    IF groups = <<>> THEN <<>>
    ELSE IF Len(groups) = 1 THEN groups[1]
    ELSE groups[1] \o <<sep>> \o JoinWith(Tail(groups), sep)

Tokenized == fl_pc \in {"await", "done"}

SlashAtAnEnd(u) == u # <<>> /\ (u[1] = "/" \/ u[Len(u)] = "/")

IsGroupedSegment ==
    /\ tokenize_query = JoinWith(GroupsOfTwo(upper(query)), "/")
    /\ ~SlashAtAnEnd(tokenize_query)

\* C1, as claimed: for every query the path segment is the uppercased query
\* in groups of two characters (the last group of one character when the
\* length is odd) joined by "/", with no leading and no trailing "/".
C1_EveryQuery == Tokenized => IsGroupedSegment

\* C1, amended: the same for every query whose upper case neither begins
\* nor ends with "/".
C1_NoSlashAtEnds == (Tokenized /\ ~SlashAtAnEnd(upper(query))) => IsGroupedSegment

\* C1's case: an odd-length query has been tokenized; its last group is one
\* character and no separator follows it.
C1_Witness ==
    /\ Tokenized
    /\ query = <<"a", "B", "eszett">>
    /\ tokenize_query = <<"A", "B", "/", "S", "S">>

---------------------------------------------------------------------------
(* parse_property called on decoded objects: an absent input, values that  *)
(* are no object, and objects in which any subset of a few mapped paths    *)
(* resolves.                                                               *)

Absent == [t |-> "absent"]

\* The object holding the keys of cands whose value is not Absent.
MkObj(cands) == Obj([k \in {k \in DOMAIN cands : cands[k] # Absent} |-> cands[k]])

IdVals == {Absent, Null, Num(1)}

StatusVals == {Absent, Str("x"), Obj(<<>>), Obj([published |-> Bool(TRUE)])}

ImageVals ==
    {Null, Str("s"), Obj([url |-> Str("u")]), Obj([url |-> Str("u"), caption |-> Str("c")])}

ImagesVals == {Absent, Str("x")} \cup {Arr(s) : s \in SeqsUpTo(ImageVals, MaxImages)}

CustomerVals == {Absent, Null, Obj([branchId |-> Num(7), branchName |-> Str("b")])}

AffiliationsVals == {Absent, Arr(<<Obj([name |-> Str("n")]), Obj(<<>>)>>)}

ParseInputs ==
    {Null, Str("html"), Arr(<<>>)}
    \cup {MkObj([id |-> a, status |-> b, images |-> c, customer |-> d,
                 industryAffiliations |-> e]) :
            a \in IdVals, b \in StatusVals, c \in ImagesVals, d \in CustomerVals,
            e \in AffiliationsVals}

PP_Call ==
    /\ pp_pc = "call"
    /\ pp_out' = parse_property(data)
    /\ pp_pc' = "done"
    /\ UNCHANGED data
    /\ UNCHANGED <<flVars, envVars, spVars, ssVars, rsVars>>

InitParse ==
    /\ data \in ParseInputs /\ pp_pc = "call" /\ pp_out = Pending
    /\ IdleFl /\ IdleEnv /\ IdleSp /\ IdleSs /\ IdleRs

NextParse == PP_Call

SpecParse == InitParse /\ [][NextParse]_vars

\* The names of a plain dotted path a.b.c, <<>> for any other expression.
RECURSIVE DottedNames(_)
DottedNames(node) ==
    CASE node.op = "field" -> <<node.name>>
      [] node.op = "sub" /\ node.r.op = "field" ->
            LET l == DottedNames(node.l)
            IN  IF l = <<>> THEN <<>> ELSE Append(l, node.r.name)
      [] OTHER -> <<>>

\* A dotted path resolves when every name is a key of the object reached.
RECURSIVE Resolves(_, _)
Resolves(d, names) ==
    \/ names = <<>>
    \/ /\ d.t = "obj"
       /\ Head(names) \in DOMAIN d.v
       /\ Resolves(d.v[Head(names)], Tail(names))

RECURSIVE Resolved(_, _)
Resolved(d, names) ==
    IF names = <<>> THEN d ELSE Resolved(d.v[Head(names)], Tail(names))

ParseDone == pp_pc = "done"

KeysOf(items) == [i \in DOMAIN items |-> items[i].key]

\* C6: for every input, parse_property raises nothing and returns a record
\* whose keys are the keys of parse_map in insertion order, with null for
\* every field whose path does not resolve and the resolved value otherwise.
C6_ProjectionTotal ==
    ParseDone =>
        /\ pp_out.exc = "none"
        /\ KeysOf(pp_out.val) = KeysOf(parse_map)
        /\ \A i \in DOMAIN parse_map :
              LET names == DottedNames(parse_map[i].node)
              IN  /\ names # <<>> =>
                        pp_out.val[i].value =
                            IF Resolves(data, names) THEN Resolved(data, names) ELSE Null
                  /\ parse_map[i].node.op = "proj" =>
                        IF Resolves(data, <<parse_map[i].node.l.name>>)
                           /\ Resolved(data, <<parse_map[i].node.l.name>>).t = "arr"
                        THEN pp_out.val[i].value.t = "arr"
                        ELSE pp_out.val[i].value = Null

\* C6's case: an object in which the id path resolves and the status paths
\* do not has been projected.
C6_Witness ==
    /\ ParseDone
    /\ data.t = "obj"
    /\ DOMAIN data.v = {"id", "images"}
    /\ pp_out.val[1] = [key |-> "id", value |-> Num(1)]
    /\ pp_out.val[2] = [key |-> "available", value |-> Null]
    /\ pp_out.val[20].value = Arr(<<[t |-> "obj", v |-> [url |-> Str("u"), caption |-> Null]]>>)

---------------------------------------------------------------------------
(* Listing pages and extract_property.                                     *)

\* The kinds of page a listing url serves:
\*   "listing"    a PAGE_MODEL script holding JSON with propertyData
\*   "nomarker"   no script contains 'PAGE_MODEL = '
\*   "truncated"  the JSON after the marker is cut short
\*   "trailing"   the JSON after the marker is followed by more text
\*   "nokey"      the JSON after the marker has no propertyData
\*   "timeout"    the fetch itself fails (a transport error)
PageKinds == {"listing", "nomarker", "truncated", "trailing", "nokey", "timeout"}

PropertyData(id) ==
    Obj([id |-> Num(id), bedrooms |-> Num(2), status |-> Obj([published |-> Bool(TRUE)])])

PageModel(id) == Obj([propertyData |-> PropertyData(id), metadata |-> Obj(<<>>)])

\* What `await client.get(url)` yields for the url of listing id: the
\* response (whether a script holds the marker, and the text after it), or
\* the transport error.
Fetch(id, kind) ==
    CASE kind = "listing" ->
            Return([marker |-> TRUE, after |-> JsonText(PageModel(id))])
      [] kind = "nomarker" ->
            Return([marker |-> FALSE, after |-> JsonText(Null)])
      [] kind = "truncated" ->
            Return([marker |-> TRUE, after |-> TruncatedText(PageModel(id))])
      [] kind = "trailing" ->
            Return([marker |-> TRUE, after |-> TrailingText(PageModel(id))])
      [] kind = "nokey" ->
            Return([marker |-> TRUE, after |-> JsonText(Obj([metadata |-> Obj(<<>>)]))])
      [] kind = "timeout" -> Raise("ReadTimeout")

\* A mutant of extract_property: without the `if not data` guard, the split
\* of a page without the marker has no element [1].
extract_property_noguard(response) ==
    IF ~response.marker THEN Raise("IndexError")
    ELSE LET decoded == json_loads(response.after)
         IN  IF decoded.exc # "none" THEN decoded
             ELSE getitem(decoded.val, "propertyData")

\* A mutant of extract_property: a decode error is swallowed.
extract_property_lenient(response) ==
    IF ~response.marker THEN Return(Null)
    ELSE LET decoded == json_loads(response.after)
         IN  IF decoded.exc # "none" THEN Return(Null)
             ELSE getitem(decoded.val, "propertyData")

\* data = selector.xpath("//script[contains(.,'PAGE_MODEL = ')]/text()").get()
\* if not data: return
\* data = json.loads(data.split("PAGE_MODEL = ", 1)[1].strip())
\* return data["propertyData"]
extract_property(response) ==
    IF ~response.marker THEN Return(Null)
    ELSE LET decoded == json_loads(response.after)
         IN  IF decoded.exc # "none" THEN decoded
             ELSE getitem(decoded.val, "propertyData")

---------------------------------------------------------------------------
(* scrape_properties                                                       *)

\* A mutant of ListAppend: the element goes to the front.
ListPrepend(list, x) == <<x>> \o list

\* list.append(x)
ListAppend(list, x) == Append(list, x)

\* parse_property(extract_property(response)) on what the fetch yielded
ScrapeOne(fetched) ==
    IF fetched.exc # "none" THEN fetched
    ELSE LET extracted == extract_property(fetched.val)
         IN  IF extracted.exc # "none" THEN extracted
             ELSE parse_property(extracted.val)

\* to_scrape = [client.get(url) for url in urls]; as_completed(to_scrape)
\* schedules every request before the loop awaits the first one.
SP_Dispatch ==
    /\ sp_pc = "call"
    /\ sp_pending' = DOMAIN urls
    /\ properties' = <<>>
    /\ sp_pc' = "loop"
    /\ UNCHANGED <<urls, sp_queue, sp_completed, sp_out>>
    /\ UNCHANGED <<flVars, ppVars, envVars, ssVars, rsVars>>

\* The fetch of the url at position i completes.
SP_Respond(i) ==
    /\ sp_pc = "loop"
    /\ i \in sp_pending
    /\ sp_pending' = sp_pending \ {i}
    /\ sp_queue' = Append(sp_queue, i)
    /\ sp_completed' = Append(sp_completed, i)
    /\ UNCHANGED <<urls, sp_pc, properties, sp_out>>
    /\ UNCHANGED <<flVars, ppVars, envVars, ssVars, rsVars>>

\* One turn of the loop: response = await response;
\* properties.append(parse_property(extract_property(response))).
\* An exception leaves the function; its list is lost.
SP_Consume ==
    /\ sp_pc = "loop"
    /\ sp_queue # <<>>
    /\ LET i == Head(sp_queue)
           one == ScrapeOne(Fetch(urls[i], site[urls[i]]))
       IN  IF one.exc # "none"
           THEN /\ sp_out' = one
                /\ sp_pc' = "done"
                /\ UNCHANGED properties
           ELSE /\ properties' = ListAppend(properties, one.val)
                /\ UNCHANGED <<sp_pc, sp_out>>
    /\ sp_queue' = Tail(sp_queue)
    /\ UNCHANGED <<urls, sp_pending, sp_completed>>
    /\ UNCHANGED <<flVars, ppVars, envVars, ssVars, rsVars>>

\* return properties, once the loop has taken every response
SP_Return ==
    /\ sp_pc = "loop"
    /\ sp_pending = {} /\ sp_queue = <<>>
    /\ sp_out' = Return(properties)
    /\ sp_pc' = "done"
    /\ UNCHANGED <<urls, sp_pending, sp_queue, sp_completed, properties>>
    /\ UNCHANGED <<flVars, ppVars, envVars, ssVars, rsVars>>

---------------------------------------------------------------------------
(* scrape_properties called on every batch of at most MaxUrls urls, each   *)
(* serving any kind of page.                                               *)

InitBatch ==
    /\ \E n \in 0..MaxUrls :
          /\ urls = [i \in 1..n |-> i]
          /\ site \in [1..n -> PageKinds]
    /\ total = 0 /\ net = "any"
    /\ sp_pc = "call" /\ sp_pending = {} /\ sp_queue = <<>> /\ sp_completed = <<>>
    /\ properties = <<>> /\ sp_out = Pending
    /\ IdleFl /\ IdlePp /\ IdleSs /\ IdleRs

NextBatch ==
    \/ SP_Dispatch
    \/ \E i \in DOMAIN urls : SP_Respond(i)
    \/ SP_Consume
    \/ SP_Return

SpecBatch == InitBatch /\ [][NextBatch]_vars

BatchDone == sp_pc = "done"

KindAt(i) == site[urls[i]]

\* The record parse_property makes of what extract_property returns for the
\* page at position i (the all-null record for a page without the marker).
RecordAt(i) == ScrapeOne(Fetch(urls[i], KindAt(i))).val

SomeMarkerless == \E i \in DOMAIN urls : KindAt(i) = "nomarker"

OthersWellFormed == \A i \in DOMAIN urls : KindAt(i) \in {"listing", "nomarker"}

\* C3: in a batch of marker-less and well-formed pages, extract_property
\* returns an absent result for each marker-less page without raising,
\* scrape_properties returns normally, and every well-formed page has its
\* projected record in the returned list, in every completion order.
C3_MarkerlessDoesNotAbort ==
    (SomeMarkerless /\ OthersWellFormed) =>
        /\ \A i \in DOMAIN urls :
              KindAt(i) = "nomarker" =>
                  extract_property(Fetch(urls[i], KindAt(i)).val) = Return(Null)
        /\ sp_out.exc \in {"pending", "none"}
        /\ BatchDone =>
              /\ sp_out.exc = "none"
              /\ \A i \in DOMAIN urls :
                    KindAt(i) = "listing" =>
                        \E k \in DOMAIN sp_out.val :
                            /\ sp_out.val[k] = parse_property(PropertyData(urls[i])).val
                            /\ sp_out.val[k][1].value = Num(urls[i])

\* C3's case: a batch of two listings and a marker-less page has returned,
\* the marker-less page having completed first.
C3_Witness ==
    /\ BatchDone
    /\ Len(urls) = 3
    /\ KindAt(1) = "listing" /\ KindAt(2) = "nomarker" /\ KindAt(3) = "listing"
    /\ sp_completed = <<2, 3, 1>>
    /\ sp_out.exc = "none"

\* C4: after scrape_properties returns, the list holds exactly one record
\* per marker-bearing page and no entry for any marker-less page.
C4_NoRecordForMarkerless ==
    (BatchDone /\ sp_out.exc = "none") =>
        Len(sp_out.val) = Cardinality({i \in DOMAIN urls : KindAt(i) # "nomarker"})

BadJsonKinds == {"truncated", "trailing"}

FailingKinds == {"truncated", "trailing", "nokey", "timeout"}

SomeBadJson == \E i \in DOMAIN urls : KindAt(i) \in BadJsonKinds

\* The position in sp_completed of the first fetch whose page makes the loop
\* raise, 0 when there is none.
FirstFailure ==
    LET failing == {k \in DOMAIN sp_completed : KindAt(sp_completed[k]) \in FailingKinds}
    IN  IF failing = {} THEN 0
        ELSE CHOOSE k \in failing : \A j \in failing : k <= j

BadJsonRaises ==
    \A i \in DOMAIN urls :
        KindAt(i) \in BadJsonKinds =>
            extract_property(Fetch(urls[i], KindAt(i)).val) = Raise("JSONDecodeError")

\* C5, as claimed: if any page of the batch has the marker followed by
\* invalid JSON, extract_property raises a decode error on it, that error
\* leaves scrape_properties, and no list is returned.
C5_DecodeErrorPropagates ==
    SomeBadJson =>
        /\ BadJsonRaises
        /\ BatchDone => sp_out = Raise("JSONDecodeError")

\* C5, amended: ... an error leaves scrape_properties and no list is
\* returned; the error is the one of the first page, in completion order,
\* that fails: the decode error, unless a page whose fetch failed or whose
\* JSON has no propertyData completed before every page with invalid JSON.
C5_FirstFailurePropagates ==
    SomeBadJson =>
        /\ BadJsonRaises
        /\ BatchDone =>
              /\ sp_out.exc # "none" /\ sp_out.val = Null
              /\ FirstFailure # 0
              /\ sp_out = ScrapeOne(Fetch(urls[sp_completed[FirstFailure]],
                                          KindAt(sp_completed[FirstFailure])))
              /\ (\A k \in 1..FirstFailure :
                        KindAt(sp_completed[k]) \notin {"nokey", "timeout"})
                    => sp_out = Raise("JSONDecodeError")

\* C5's case: the page with truncated JSON completed last, after two
\* listings were appended, and the decode error left scrape_properties.
C5_Witness ==
    /\ BatchDone
    /\ Len(urls) = 3
    /\ KindAt(1) = "truncated" /\ KindAt(2) = "listing" /\ KindAt(3) = "listing"
    /\ sp_completed = <<3, 2, 1>>
    /\ Len(properties) = 2
    /\ sp_out = Raise("JSONDecodeError")

NoneFails == \A i \in DOMAIN urls : KindAt(i) \notin FailingKinds

\* C8: every fetch is dispatched before any is awaited, each record is
\* appended when its fetch is taken from the completion queue, and the
\* returned list is the records of the pages in completion order: a
\* permutation of the per-url records, not necessarily in input order.
C8_CompletionOrder ==
    /\ sp_pc = "loop" =>
          /\ sp_pending \cup Range(sp_completed) = DOMAIN urls
          /\ Len(properties) + Len(sp_queue) <= Len(sp_completed)
          /\ NoneFails =>
                properties = [k \in 1..Len(properties) |-> RecordAt(sp_completed[k])]
    /\ (BatchDone /\ sp_out.exc = "none") =>
          /\ Len(sp_completed) = Len(urls)
          /\ Range(sp_completed) = DOMAIN urls
          /\ sp_out.val = [k \in DOMAIN urls |-> RecordAt(sp_completed[k])]

\* C8's case: three listings completed in an order that is not the input
\* order and the list was returned in that order.
C8_Witness ==
    /\ BatchDone
    /\ Len(urls) = 3
    /\ \A i \in 1..3 : KindAt(i) = "listing"
    /\ sp_completed = <<3, 1, 2>>
    /\ sp_out.exc = "none"
    /\ [k \in 1..3 |-> sp_out.val[k][1].value] = <<Num(3), Num(1), Num(2)>>

---------------------------------------------------------------------------
(* The search API.                                                         *)

RESULTS_PER_PAGE == 24

max_api_results == 1000

DigitChars == <<"0", "1", "2", "3", "4", "5", "6", "7", "8", "9">>

RECURSIVE Decimal(_)
Decimal(n) ==
    IF n < 10 THEN <<DigitChars[n + 1]>>
    ELSE Append(Decimal(n \div 10), DigitChars[(n % 10) + 1])

\* n as the API writes resultCount: decimal, a comma every three digits
RECURSIVE FormatCount(_)
FormatCount(n) ==
    IF n < 1000 THEN Decimal(n)
    ELSE FormatCount(n \div 1000)
         \o <<",", DigitChars[((n \div 100) % 10) + 1],
                   DigitChars[((n \div 10) % 10) + 1], DigitChars[(n % 10) + 1]>>

\* The ids of the listing summaries the API returns at an offset: a listing
\* summary is modelled by its id, the ids are 1..total in API order.
ServerPage(offset) ==
    [k \in 1..Min(RESULTS_PER_PAGE, IF offset < total THEN total - offset ELSE 0)
        |-> offset + k]

\* The decoded body of the search response at an offset.
SearchResponse(offset) ==
    [resultCount |-> FormatCount(total), properties |-> ServerPage(offset)]

---------------------------------------------------------------------------
(* scrape_search                                                           *)

\* s.replace(c, '')
str_remove(s, c) == SelectSeq(s, LAMBDA x : x # c)

\* int(s) of a string of decimal digits
RECURSIVE int(_)
int(s) ==
    IF s = <<>> THEN 0
    ELSE 10 * int(SubSeq(s, 1, Len(s) - 1))
         + ((CHOOSE d \in 1..10 : DigitChars[d] = s[Len(s)]) - 1)

\* int(first_page_data['resultCount'].replace(',', ''))
ParseCount(resultCount) == int(str_remove(resultCount, ","))

\* A mutant of OtherPagesFrom: the range includes its stop value.
RECURSIVE OtherPagesInclusive(_, _, _)
OtherPagesInclusive(offset, stop, acc) ==
    IF offset > stop THEN acc
    ELSE IF offset >= max_api_results THEN acc
    ELSE OtherPagesInclusive(offset + RESULTS_PER_PAGE, stop, Append(acc, offset))

\* for offset in range(offset, stop, RESULTS_PER_PAGE):
\*     if offset >= max_api_results: break
\*     other_pages.append(client.get(make_url(offset)))
\* A request is modelled by its offset.
RECURSIVE OtherPagesFrom(_, _, _)
OtherPagesFrom(offset, stop, acc) ==
    IF offset >= stop THEN acc
    ELSE IF offset >= max_api_results THEN acc
    ELSE OtherPagesFrom(offset + RESULTS_PER_PAGE, stop, Append(acc, offset))

\* A mutant of ListExtend: the new elements go to the front.
ListExtendFront(list, xs) == xs \o list

\* list.extend(xs)
ListExtend(list, xs) == list \o xs

\* first_page = await client.get(make_url(0)), up to the await
SS_FirstRequest ==
    /\ ss_pc = "call"
    /\ ss_pc' = "first"
    /\ UNCHANGED <<total_results, other_pages, ss_pending, ss_queue, ss_completed, results>>
    /\ UNCHANGED <<flVars, ppVars, envVars, spVars, rsVars>>

\* From the first response to the first await of the loop: the count is
\* parsed, the requests of the other pages are built, and as_completed
\* schedules them all.
SS_FirstResponse ==
    /\ ss_pc = "first"
    /\ LET first_page_data == SearchResponse(0)
           n == ParseCount(first_page_data.resultCount)
           pages == OtherPagesFrom(RESULTS_PER_PAGE, n, <<>>)
       IN  /\ total_results' = n
           /\ results' = first_page_data.properties
           /\ other_pages' = pages
           /\ ss_pending' = Range(pages)
    /\ ss_pc' = "loop"
    /\ UNCHANGED <<ss_queue, ss_completed>>
    /\ UNCHANGED <<flVars, ppVars, envVars, spVars, rsVars>>

\* The responses the network may deliver next: any pending one, or only the
\* oldest ("fifo") or the newest ("lifo") request.
Deliverable ==
    {o \in ss_pending :
        \/ net = "any"
        \/ net = "fifo" /\ \A p \in ss_pending : o <= p
        \/ net = "lifo" /\ \A p \in ss_pending : o >= p}

\* The fetch of the page at an offset completes.
SS_Respond(offset) ==
    /\ ss_pc = "loop"
    /\ offset \in Deliverable
    /\ ss_pending' = ss_pending \ {offset}
    /\ ss_queue' = Append(ss_queue, offset)
    /\ ss_completed' = Append(ss_completed, offset)
    /\ UNCHANGED <<ss_pc, total_results, other_pages, results>>
    /\ UNCHANGED <<flVars, ppVars, envVars, spVars, rsVars>>

\* One turn of the loop: response = await response;
\* results.extend(json.loads(response.text)['properties'])
SS_Consume ==
    /\ ss_pc = "loop"
    /\ ss_queue # <<>>
    /\ results' = ListExtend(results, SearchResponse(Head(ss_queue)).properties)
    /\ ss_queue' = Tail(ss_queue)
    /\ UNCHANGED <<ss_pc, total_results, other_pages, ss_pending, ss_completed>>
    /\ UNCHANGED <<flVars, ppVars, envVars, spVars, rsVars>>

\* return results, once the loop has taken every response
SS_Return ==
    /\ ss_pc = "loop"
    /\ ss_pending = {} /\ ss_queue = <<>>
    /\ ss_pc' = "done"
    /\ UNCHANGED <<total_results, other_pages, ss_pending, ss_queue, ss_completed, results>>
    /\ UNCHANGED <<flVars, ppVars, envVars, spVars, rsVars>>

---------------------------------------------------------------------------
(* scrape_search called on a location with up to MaxTotal listings, the    *)
(* responses arriving in every order; and on locations whose count is      *)
(* within CapMargin of the API limit, or twice the limit, the responses    *)
(* arriving in request order or in reverse order.                          *)

TotalsAtLimit ==
    ((max_api_results - CapMargin)..(max_api_results + CapMargin))
    \cup {2 * max_api_results}

InitSearch ==
    /\ \/ total \in 0..MaxTotal /\ net = "any"
       \/ total \in TotalsAtLimit /\ net \in {"fifo", "lifo"}
    /\ site = <<>>
    /\ ss_pc = "call" /\ total_results = 0 /\ other_pages = <<>> /\ ss_pending = {}
    /\ ss_queue = <<>> /\ ss_completed = <<>> /\ results = <<>>
    /\ IdleFl /\ IdlePp /\ IdleSp /\ IdleRs

NextSearch ==
    \/ SS_FirstRequest
    \/ SS_FirstResponse
    \/ \E offset \in ss_pending : SS_Respond(offset)
    \/ SS_Consume
    \/ SS_Return

SpecSearch == InitSearch /\ [][NextSearch]_vars

\* The offsets scrape_search has requested: offset 0, and the offsets of the
\* requests the loop built.
RequestedOffsets ==
    IF ss_pc \in {"idle", "call"} THEN {} ELSE {0} \cup Range(other_pages)

OffsetsBuilt == ss_pc \in {"loop", "done"}

\* The multiples of the page size below the declared count and the limit.
PageOffsetsBelow(count, limit) ==
    {o \in 0..count : o % RESULTS_PER_PAGE = 0 /\ o < count /\ o < limit}

\* C2, as claimed: for every declared count, 0 included, the requested
\* offsets are exactly the multiples of 24 that are strictly below the
\* declared count and strictly below the limit 1000.
C2_OffsetsBelowTotal ==
    OffsetsBuilt => RequestedOffsets = PageOffsetsBelow(total, max_api_results)

\* C2, amended: offset 0 is requested whatever the count (also when it is
\* 0); the other requested offsets are exactly the multiples of 24 strictly
\* below the declared count, parsed from its comma-separated form, and
\* strictly below the limit 1000.
C2_OffsetZeroAndBelowTotal ==
    OffsetsBuilt =>
        /\ total_results = total
        /\ RequestedOffsets = {0} \cup PageOffsetsBelow(total, max_api_results)
        /\ Len(other_pages) = Cardinality(RequestedOffsets) - 1

\* C2's case: a count of 2,000 was declared and the offsets stop at 984.
C2_Witness ==
    /\ OffsetsBuilt
    /\ total = 2 * max_api_results
    /\ SearchResponse(0).resultCount = <<"2", ",", "0", "0", "0">>
    /\ Len(other_pages) = 41
    /\ other_pages[41] = 984

SearchDone == ss_pc = "done"

\* C7: the merged list scrape_search returns never holds more than 1000
\* listing summaries.
C7_AtMostLimitResults == SearchDone => Len(results) <= max_api_results

RECURSIVE ConcatPages(_)
ConcatPages(offsets) ==
    IF offsets = <<>> THEN <<>>
    ELSE ServerPage(Head(offsets)) \o ConcatPages(Tail(offsets))

\* The offsets whose responses the loop has taken, in completion order.
TakenPages == SubSeq(ss_completed, 1, Len(ss_completed) - Len(ss_queue))

\* C9: no other page is requested before page 0 has answered and its count
\* is parsed; the merged list is page 0's results in their order, followed
\* by the results of the other pages, each page contiguous and in its own
\* order, the pages in completion order.
C9_PageZeroFirst ==
    /\ ss_pc \in {"call", "first"} =>
          other_pages = <<>> /\ ss_pending = {} /\ ss_completed = <<>> /\ results = <<>>
    /\ OffsetsBuilt =>
          /\ total_results = total
          /\ results = ServerPage(0) \o ConcatPages(TakenPages)
    /\ SearchDone => TakenPages = ss_completed /\ Range(ss_completed) = Range(other_pages)

\* C9's case: the four other pages of 100 listings completed in the order
\* 96, 24, 72, 48 and were merged after page 0 in that order.
C9_Witness ==
    /\ SearchDone
    /\ total = 100
    /\ ss_completed = <<96, 24, 72, 48>>
    /\ SubSeq(results, 1, 24) = [k \in 1..24 |-> k]
    /\ SubSeq(results, 25, 30) = <<97, 98, 99, 100, 25, 26>>

---------------------------------------------------------------------------
(* run_save                                                                *)

\* A mutant of AdUrls: all the remaining listings are scraped as one batch.
AdUrlsRest(ads, i) == SubSeq(ads, i + 1, Len(ads))

\* The urls run_save passes to scrape_properties for the ad after the first
\* i: ["https://www.rightmove.co.uk/properties/{}#/".format(ad['id'])]
AdUrls(ads, i) == <<ads[i + 1]>>

\* location_id = (await find_locations(sys.argv[1]))[0], up to the await
RS_Start ==
    /\ rs_pc = "start"
    /\ fl_pc' = "call"
    /\ rs_pc' = "locate"
    /\ UNCHANGED <<query, tokenize_query, fl_out, rs_i, feature_list>>
    /\ UNCHANGED <<ppVars, envVars, spVars, ssVars>>

\* find_locations has ended: its exception, or the IndexError of [0] on an
\* empty list, ends the run; otherwise scrape_search is called.
RS_Located ==
    /\ rs_pc = "locate"
    /\ fl_pc = "done"
    /\ IF fl_out.exc # "none" \/ fl_out.val = <<>>
       THEN rs_pc' = "raised" /\ UNCHANGED ss_pc
       ELSE rs_pc' = "search" /\ ss_pc' = "call"
    /\ UNCHANGED <<total_results, other_pages, ss_pending, ss_queue, ss_completed, results>>
    /\ UNCHANGED <<rs_i, feature_list>>
    /\ UNCHANGED <<flVars, ppVars, envVars, spVars>>

\* location_results = await scrape_search(location_id); feature_list = []
RS_Searched ==
    /\ rs_pc = "search"
    /\ ss_pc = "done"
    /\ feature_list' = <<>>
    /\ rs_i' = 0
    /\ rs_pc' = "ads"
    /\ UNCHANGED <<flVars, ppVars, envVars, spVars, ssVars>>

\* for ad in location_results: property1 = await scrape_properties([url]),
\* up to the call
RS_NextAd ==
    /\ rs_pc = "ads"
    /\ rs_i < Len(results)
    /\ urls' = AdUrls(results, rs_i)
    /\ sp_pc' = "call"
    /\ sp_pending' = {} /\ sp_queue' = <<>> /\ sp_completed' = <<>>
    /\ properties' = <<>> /\ sp_out' = Pending
    /\ rs_pc' = "fetch"
    /\ UNCHANGED <<rs_i, feature_list>>
    /\ UNCHANGED <<flVars, ppVars, envVars, ssVars>>

\* scrape_properties has ended: its exception ends the run; otherwise
\* feature_list.append(property1[0])
RS_AdScraped ==
    /\ rs_pc = "fetch"
    /\ sp_pc = "done"
    /\ IF sp_out.exc # "none" \/ sp_out.val = <<>>
       THEN rs_pc' = "raised" /\ UNCHANGED <<rs_i, feature_list>>
       ELSE /\ feature_list' = ListAppend(feature_list, sp_out.val[1])
            /\ rs_i' = rs_i + 1
            /\ rs_pc' = "ads"
    /\ UNCHANGED <<flVars, ppVars, envVars, spVars, ssVars>>

\* df = pd.DataFrame(feature_list); df.to_csv(...): the rows of the table
\* are the elements of feature_list.
RS_Save ==
    /\ rs_pc = "ads"
    /\ rs_i = Len(results)
    /\ rs_pc' = "done"
    /\ UNCHANGED <<rs_i, feature_list>>
    /\ UNCHANGED <<flVars, ppVars, envVars, spVars, ssVars>>

---------------------------------------------------------------------------
(* run_save on a location with a few listings on one page, or on three     *)
(* pages, at most one of them (an id up to MaxBadId) serving a page that   *)
(* is not a well-formed listing.                                           *)

RunTotals == (0..MaxRunTotal) \cup {2 * RESULTS_PER_PAGE + k : k \in 1..MaxRunTotal}

InitRun ==
    /\ query = <<"a", "B", "a">>
    /\ fl_pc = "idle" /\ tokenize_query = <<>> /\ fl_out = Pending
    /\ total \in RunTotals
    /\ \E bad \in 0..Min(total, MaxBadId), kind \in PageKinds \ {"listing"} :
          site = [id \in 1..total |-> IF id = bad THEN kind ELSE "listing"]
    /\ net = "any"
    /\ rs_pc = "start" /\ rs_i = 0 /\ feature_list = <<>>
    /\ IdlePp /\ IdleSp /\ IdleSs

NextRun ==
    \/ RS_Start
    \/ FL_Request
    \/ FL_Response
    \/ RS_Located
    \/ SS_FirstRequest
    \/ SS_FirstResponse
    \/ \E offset \in ss_pending : SS_Respond(offset)
    \/ SS_Consume
    \/ SS_Return
    \/ RS_Searched
    \/ RS_NextAd
    \/ SP_Dispatch
    \/ \E i \in DOMAIN urls : SP_Respond(i)
    \/ SP_Consume
    \/ SP_Return
    \/ RS_AdScraped
    \/ RS_Save

SpecRun == InitRun /\ [][NextRun]_vars

NullRecord == [i \in DOMAIN parse_map |-> [key |-> parse_map[i].key, value |-> Null]]

RunDone == rs_pc = "done"

\* C10: in run_save at most one detail fetch is in flight in any state, a
\* listing's fetch is issued only after the previous listing's record has
\* been appended, and when the run completes the table has exactly one row
\* per listing summary scrape_search returned, in the order of that list,
\* the row of a listing whose page lacks the marker being all null.
C10_OneAtATimeOneRowEach ==
    /\ Cardinality(sp_pending) <= 1
    /\ sp_pending # {} =>
          /\ rs_pc = "fetch"
          /\ Len(feature_list) = rs_i
          /\ urls = <<results[rs_i + 1]>>
    /\ RunDone =>
          /\ Len(feature_list) = Len(results)
          /\ \A k \in DOMAIN results :
                IF site[results[k]] = "nomarker"
                THEN feature_list[k] = NullRecord
                ELSE /\ feature_list[k] = parse_property(PropertyData(results[k])).val
                     /\ feature_list[k][1] = [key |-> "id", value |-> Num(results[k])]

\* C10's case: a run over three pages completed, the pages merged out of
\* API order, listing 2 serving a page without the marker.
C10_Witness ==
    /\ RunDone
    /\ total = 2 * RESULTS_PER_PAGE + 1
    /\ ss_completed = <<48, 24>>
    /\ site[2] = "nomarker"
    /\ Len(feature_list) = total
    /\ feature_list[2] = NullRecord
    /\ feature_list[25][1].value = Num(49)

=============================================================================
